---- MODULE Spec2Model ----
(***************************************************************************)
(* Model of the buildit server: the job dispatcher (build / build_inner),  *)
(* the chat command handler (answer) and the webhook consumer              *)
(* (get_webhooks_message / handle_webhook_comment).                        *)
(*                                                                         *)
(* Conventions.                                                            *)
(*   Option<T>:  None is <<>>, Some(x) is <<x>>.                           *)
(*   A whitespace-delimited word is kept as the sequence of its            *)
(*   comma-separated pieces, i.e. as the result of word.split(','); a      *)
(*   word without a comma is a one-element sequence.                       *)
(*   The queue name format!("job-{}", arch) is kept as <<"job-", arch>>.   *)
(***************************************************************************)
EXTENDS Integers, Sequences, FiniteSets, Bags, TLC

VARIABLES
    declared,   \* broker: names of the queues that have been declared
    queues,     \* broker: queue name -> sequence of published Jobs
    chat,       \* messages the bot has sent to the chat session
    bCmd,       \* chat path: the command being answered
    bPc,        \* chat path: position inside answer / build / build_inner
    bReq,       \* chat path: arguments of the running build() call
    bArchs,     \* chat path: build()'s local `archs` after sort and dedup
    bIdx,       \* chat path: index of build_inner's `for arch in archs`
    bResult,    \* chat path: result of build_inner ("none" while running)
    pubLog,     \* the publishes of the current dispatch call, in order
    whPc,       \* webhook consumer: "consuming" or "panicked"
    retry,      \* webhook consumer: get_webhooks_message's local `retry`
    whNext,     \* number of deliveries the webhook consumer has taken
    whReady,    \* github-webhooks: bag of requeued deliveries to redeliver
    whUnacked,  \* github-webhooks: bag of deliveries not acknowledged
    whBuilds,   \* number of build commands published to github-webhooks
    whRestarts, \* number of times the webhook consumer has been started again
    prComments, \* code host: comments on pull requests, in creation order
    githubAccessToken, \* ARGS.github_access_token
    whCall,     \* history: the last iteration of the webhook consume loop
    jcPc,       \* completion worker: "off", "starting", "consuming", "backoff"
    jcReady,    \* job-completion: bag of requeued deliveries to redeliver
    jcUnacked,  \* job-completion: bag of deliveries not acknowledged
    jcBudget,   \* deliveries the completion consumer may still take
    jcStarts,   \* history: starts of job_completion_worker_inner (saturating)
    jcCall,     \* history: the last iteration of the completion loop
    hbPc,       \* heartbeat worker: "off", "starting", "consuming", "backoff"
    hbReady,    \* worker-heartbeat: bag of requeued deliveries to redeliver
    hbUnacked,  \* worker-heartbeat: bag of deliveries not acknowledged
    hbBudget,   \* deliveries the heartbeat consumer may still take
    hbStarts,   \* history: starts of heartbeat_worker_inner (saturating)
    hbCall,     \* history: the last iteration of the heartbeat loop
    WORKERS,    \* the registry: WorkerIdentifier -> last_heartbeat
    now,        \* Local::now(), in seconds
    statusReport, \* the Server Status lines of the last status() call
    lock,       \* the mutex of WORKERS: "free", or the task that holds it
    hbCur,      \* heartbeat loop: the decoded delivery in hand and its position
    stRun,      \* status(): the running call's position and what it has read
    qArgs,      \* broker: queue name -> the parameters it was declared with
    qLast       \* history: the last queue_declare call and how it ended

brokerVars == <<declared, queues, pubLog>>

chatVars == <<chat, bCmd, bPc, bReq, bArchs, bIdx, bResult>>

whVars ==
    <<whPc, retry, whNext, whReady, whUnacked, whBuilds, whRestarts,
      prComments, githubAccessToken, whCall>>

jcVars == <<jcPc, jcReady, jcUnacked, jcBudget, jcStarts, jcCall>>

hbVars == <<hbPc, hbReady, hbUnacked, hbBudget, hbStarts, hbCall, WORKERS, now, statusReport>>

regVars == <<lock, hbCur, stRun>>

declVars == <<qArgs, qLast>>

workerVars == <<jcVars, hbVars, regVars, declVars>>

vars ==
    <<declared, queues, pubLog, chat, bCmd, bPc, bReq, bArchs, bIdx, bResult,
      whPc, retry, whNext, whReady, whUnacked, whBuilds, whRestarts,
      prComments, githubAccessToken, whCall,
      jcPc, jcReady, jcUnacked, jcBudget, jcStarts, jcCall,
      hbPc, hbReady, hbUnacked, hbBudget, hbStarts, hbCall, WORKERS, now,
      statusReport, lock, hbCur, stRun, qArgs, qLast>>

----------------------------------------------------------------------------
(* Bounds of the model                                                     *)

MaxArchs == 3

\* Deliveries the webhook consumer takes in one behaviour.
MaxDeliveries == 5

\* Restarts of the webhook consumer in one behaviour.
MaxRestarts == 1

\* Events among them that carry a build command for a pull request.
MaxBuildEvents == 1

----------------------------------------------------------------------------
(* Option, sequences                                                       *)

None == <<>>

Some(x) == <<x>>

Range(s) == {s[i] : i \in 1..Len(s)}

SeqsUpTo(S, n) == UNION {[1..k -> S] : k \in 1..n}

----------------------------------------------------------------------------
(* Architecture tokens                                                     *)

ALL_ARCH ==
    <<"amd64", "arm64", "loongarch64", "loongson3", "mips64r6el", "ppc64el",
      "riscv64">>

MainlineArchs ==
    <<"amd64", "arm64", "loongarch64", "loongson3", "mips64r6el", "ppc64el",
      "riscv64">>

\* The architectures the /pr command asks for.
PrArchs == <<"amd64", "arm64", "loongson3", "mips64r6el", "ppc64el", "riscv64">>

\* Pieces a user can type in the architecture argument.
ArchTokens == {"amd64", "arm64", "riscv64", "mainline", "foo"}

\* Byte-wise order of str (Ord for str), as a rank on the strings in use.
StrRank(s) ==
    CASE s = "amd64"       -> 1
      [] s = "arm64"       -> 2
      [] s = "foo"         -> 3
      [] s = "loongarch64" -> 4
      [] s = "loongson3"   -> 5
      [] s = "mainline"    -> 6
      [] s = "mips64r6el"  -> 7
      [] s = "ppc64el"     -> 8
      [] s = "riscv64"     -> 9

StrLeq(a, b) == StrRank(a) <= StrRank(b)

----------------------------------------------------------------------------
(* Vec operations used by build()                                          *)

\* Vec::contains
Contains(v, x) == \E i \in 1..Len(v) : v[i] = x

\* Retain with the predicate dropped: nothing is removed.
RetainKeepsAll(v, x) == v

\* Vec::retain(|a| *a != x)
RECURSIVE Retain(_, _)
Retain(v, x) ==
    IF v = <<>> THEN <<>>
    ELSE IF Head(v) # x THEN <<Head(v)>> \o Retain(Tail(v), x)
         ELSE Retain(Tail(v), x)

\* Insertion of x into a sorted vector, after the elements equal to it.
RECURSIVE InsertSorted(_, _)
InsertSorted(v, x) ==
    IF v = <<>> THEN <<x>>
    ELSE IF StrLeq(Head(v), x) THEN <<Head(v)>> \o InsertSorted(Tail(v), x)
         ELSE <<x>> \o v

\* Sort left out: the vector stays in the order given.
SortOmitted(v) == v

\* Vec::sort (a stable sort by Ord for str)
RECURSIVE Sort(_)
Sort(v) ==
    IF v = <<>> THEN <<>>
    ELSE InsertSorted(Sort(SubSeq(v, 1, Len(v) - 1)), v[Len(v)])

\* Vec::dedup: removes consecutive repeated elements only.
RECURSIVE Dedup(_)
Dedup(v) ==
    IF Len(v) <= 1 THEN v
    ELSE IF v[1] = v[2] THEN Dedup(Tail(v))
         ELSE <<v[1]>> \o Dedup(Tail(v))

\* build(): the local `archs` handed to build_inner.
NormalizeArchs(archs) ==
    LET expanded ==
            IF Contains(archs, "mainline")
            THEN Retain(archs \o MainlineArchs, "mainline")
            ELSE archs
    IN  Dedup(Sort(expanded))

----------------------------------------------------------------------------
(* Broker operations                                                       *)

QueueName(arch) == <<"job-", arch>>

\* ensure_job_queue: a durable queue_declare; declaring again changes nothing.
ensure_job_queue(decl, name) == decl \cup {name}

QueueOf(qs, name) == IF name \in DOMAIN qs THEN qs[name] ELSE <<>>

\* basic_publish to the default exchange with routing key `name`.
basic_publish(qs, name, payload) ==
    [n \in DOMAIN qs \cup {name} |->
        IF n = name THEN Append(QueueOf(qs, n), payload) ELSE qs[n]]

\* build_inner's channel comes from conn.create_channel() and is used as
\* created: confirm_select is never called on it.
ConfirmSelect == FALSE

\* What the second await of basic_publish yields when it yields Ok: the
\* broker's acknowledgement on a channel in confirm mode, and
\* Confirmation::NotRequested, without waiting for the broker, otherwise.
Confirmation == IF ConfirmSelect THEN "Ack" ELSE "NotRequested"

\* build_inner: the Job built for one architecture.
MakeJob(req, arch) ==
    [packages  |-> req.packages,
     git_ref   |-> req.git_ref,
     arch      |-> arch,
     tg_chatid |-> req.chat_id,
     github_pr |-> req.github_pr]

----------------------------------------------------------------------------
(* Chat commands                                                           *)

ChatId == 1

GitRefWords == {<<"stable">>}

PackageWords == {<<"bash">>, <<"bash", "fish">>}

ArchWords == SeqsUpTo(ArchTokens, MaxArchs)

\* Command::Build(arguments): arguments.split(" ")
BuildParts ==
    {<<r, p, a>> : r \in GitRefWords, p \in PackageWords, a \in ArchWords}
        \cup {<<r, p>> : r \in GitRefWords, p \in PackageWords}

PrArguments == {"42", "abc"}

Commands ==
    {[kind |-> "build", parts |-> p] : p \in BuildParts}
        \cup {[kind |-> "pr", arguments |-> a] : a \in PrArguments}

\* str::parse::<u64>
ParseU64(s) ==
    CASE s = "42" -> Some(42)
      [] s = "7"  -> Some(7)
      [] OTHER    -> None

\* line.starts_with("#buildit"), on the first space-separated word of a line
StartsWithBuildit(word) == word \in {"#buildit", "#builditnow"}

\* Bodies of pull requests: None, or the lines, each split at " ".
PrBodies ==
    {None,
     Some(<< <<"Topic">> >>),
     Some(<< <<"#buildit">> >>),
     Some(<< <<"Topic">>, <<"#buildit", "bash", "fish">> >>),
     Some(<< <<"#builditnow", "bash">>, <<"#buildit", "fish">> >>)}

PullRequests ==
    [head_ref : {<<"topic">>}, merged : BOOLEAN, body : PrBodies]

\* answer, Command::PR: the words after the first of the first "#buildit" line
RECURSIVE FirstBuilditLine(_)
FirstBuilditLine(lines) ==
    IF lines = <<>> THEN None
    ELSE IF StartsWithBuildit(Head(lines)[1]) THEN Some(Tail(Head(lines)))
         ELSE FirstBuilditLine(Tail(lines))

PackagesFromBody(body) ==
    IF body = None THEN <<>>
    ELSE LET found == FirstBuilditLine(body[1])
         IN  IF found = None THEN <<>> ELSE found[1]

----------------------------------------------------------------------------
(* The chat path: answer -> build -> build_inner                           *)

\* bot.send_message(...).await?: the message is sent, or the call fails.
SendMessage(m) == chat' \in {Append(chat, m), chat}

\* answer, Command::Build(arguments)
answer_build ==
    /\ bPc = "answer"
    /\ bCmd.kind = "build"
    /\ IF Len(bCmd.parts) = 3
       THEN /\ bReq' = Some([git_ref   |-> bCmd.parts[1],
                             packages  |-> bCmd.parts[2],
                             archs     |-> bCmd.parts[3],
                             github_pr |-> None,
                             chat_id   |-> ChatId])
            /\ bPc' = "build"
            /\ chat' = chat
       ELSE /\ SendMessage([kind |-> "invalid_job_description"])
            /\ bPc' = "done"
            /\ bReq' = bReq
    /\ UNCHANGED <<brokerVars, whVars, workerVars, bCmd, bArchs, bIdx, bResult>>

\* answer, Command::PR(arguments)
answer_pr ==
    /\ bPc = "answer"
    /\ bCmd.kind = "pr"
    /\ LET num == ParseU64(bCmd.arguments)
       IN  IF num = None
           THEN /\ SendMessage([kind |-> "invalid_pr_description"])
                /\ bPc' = "done"
                /\ bReq' = bReq
           ELSE \/ /\ SendMessage([kind |-> "failed_to_get_pr_info"])
                   /\ bPc' = "done"
                   /\ bReq' = bReq
                \/ \E pr \in PullRequests :
                      LET packages == PackagesFromBody(pr.body)
                      IN  IF Len(packages) > 0
                          THEN /\ bReq' = Some([git_ref   |-> pr.head_ref,
                                                packages  |-> packages,
                                                archs     |-> PrArchs,
                                                github_pr |-> num,
                                                chat_id   |-> ChatId])
                               /\ bPc' = "build"
                               /\ chat' = chat
                          ELSE /\ SendMessage([kind |-> "please_list_packages"])
                               /\ bPc' = "done"
                               /\ bReq' = bReq
    /\ UNCHANGED <<brokerVars, whVars, workerVars, bCmd, bArchs, bIdx, bResult>>

\* build(): mainline expansion, sort, dedup
build ==
    /\ bPc = "build"
    /\ bArchs' = NormalizeArchs(bReq[1].archs)
    /\ bPc' = "connect"
    /\ pubLog' = <<>>
    /\ UNCHANGED <<declared, queues, whVars, workerVars, chat, bCmd, bReq, bIdx, bResult>>

\* build_inner: Connection::connect and create_channel
build_inner_connect ==
    /\ bPc = "connect"
    /\ \/ /\ bPc' = "loop"
          /\ bIdx' = 1
          /\ bResult' = bResult
       \/ /\ bPc' = "reply"
          /\ bResult' = "err"
          /\ bIdx' = bIdx
    /\ UNCHANGED <<brokerVars, whVars, workerVars, chat, bCmd, bReq, bArchs>>

\* build_inner: head of `for arch in archs`, then ensure_job_queue
build_inner_ensure ==
    /\ bPc = "loop"
    /\ IF bIdx > Len(bArchs)
       THEN /\ bResult' = "ok"
            /\ bPc' = "reply"
            /\ declared' = declared
       ELSE \/ /\ declared' = ensure_job_queue(declared, QueueName(bArchs[bIdx]))
               /\ bPc' = "publish"
               /\ bResult' = bResult
            \/ /\ bResult' = "err"
               /\ bPc' = "reply"
               /\ declared' = declared
    /\ UNCHANGED <<queues, pubLog, whVars, workerVars, chat, bCmd, bReq, bArchs, bIdx>>

\* The publish with its errors swallowed: a failed publish moves on to the
\* next architecture instead of returning the error.
build_inner_publish_swallow ==
    /\ bPc = "publish"
    /\ \/ /\ queues' = basic_publish(queues, QueueName(bArchs[bIdx]),
                                     MakeJob(bReq[1], bArchs[bIdx]))
          /\ pubLog' = Append(pubLog, [queue |-> QueueName(bArchs[bIdx]),
                                       job   |-> MakeJob(bReq[1], bArchs[bIdx]),
                                       confirmation |-> Confirmation])
       \/ UNCHANGED <<queues, pubLog>>
    /\ bIdx' = bIdx + 1
    /\ bPc' = "loop"
    /\ UNCHANGED <<declared, whVars, workerVars, chat, bCmd, bReq, bArchs, bResult>>

\* build_inner: basic_publish(...).await?.await?
build_inner_publish ==
    /\ bPc = "publish"
    /\ LET name == QueueName(bArchs[bIdx])
           job  == MakeJob(bReq[1], bArchs[bIdx])
           sent == /\ queues' = basic_publish(queues, name, job)
                   /\ pubLog' = Append(pubLog, [queue |-> name, job |-> job,
                                                confirmation |-> Confirmation])
       IN  \/ /\ sent
              /\ bIdx' = bIdx + 1
              /\ bPc' = "loop"
              /\ bResult' = bResult
           \/ \* the publish fails before anything was sent
              /\ UNCHANGED <<queues, pubLog, bIdx>>
              /\ bResult' = "err"
              /\ bPc' = "reply"
           \/ \* the confirmation fails after the message reached the broker
              /\ sent
              /\ bIdx' = bIdx
              /\ bResult' = "err"
              /\ bPc' = "reply"
    /\ UNCHANGED <<declared, whVars, workerVars, chat, bCmd, bReq, bArchs>>

\* build(): the reply for build_inner's result
build_reply ==
    /\ bPc = "reply"
    /\ IF bResult = "ok"
       THEN SendMessage([kind |-> "new_job_summary"])
       ELSE SendMessage([kind |-> "failed_to_create_job"])
    /\ bPc' = "done"
    /\ UNCHANGED <<brokerVars, whVars, workerVars, bCmd, bReq, bArchs, bIdx, bResult>>

BrokerInit ==
    /\ declared = {}
    /\ queues = <<>>
    /\ pubLog = <<>>

ChatIdle ==
    /\ chat = <<>>
    /\ bPc = "answer"
    /\ bReq = None
    /\ bArchs = <<>>
    /\ bIdx = 0
    /\ bResult = "none"

WebhookInit ==
    /\ whPc = "consuming"
    /\ retry = None
    /\ whNext = 0
    /\ whReady = EmptyBag
    /\ whUnacked = EmptyBag
    /\ whBuilds = 0
    /\ whRestarts = 0
    /\ prComments = <<>>
    /\ githubAccessToken \in {None, Some("token")}
    /\ whCall = None

\* The completion worker is not spawned.
CompletionOff ==
    /\ jcPc = "off"
    /\ jcReady = EmptyBag
    /\ jcUnacked = EmptyBag
    /\ jcBudget = 0
    /\ jcStarts = 0
    /\ jcCall = None

\* No task holds the mutex of WORKERS or is about to take it.
\* No queue_declare call is followed.
DeclarationsIdle ==
    /\ qArgs = <<>>
    /\ qLast = <<>>

RegistryIdle ==
    /\ lock = "free"
    /\ hbCur = None
    /\ stRun = None

\* The heartbeat worker is not spawned and status is not asked for.
HeartbeatOff ==
    /\ hbPc = "off"
    /\ hbReady = EmptyBag
    /\ hbUnacked = EmptyBag
    /\ hbBudget = 0
    /\ hbStarts = 0
    /\ hbCall = None
    /\ WORKERS = <<>>
    /\ now = 0
    /\ statusReport = None
    /\ RegistryIdle
    /\ DeclarationsIdle

WorkersOff == CompletionOff /\ HeartbeatOff

InitBuild ==
    /\ BrokerInit
    /\ ChatIdle
    /\ WebhookInit
    /\ WorkersOff
    /\ bCmd \in Commands

NextBuild ==
    \/ answer_build
    \/ answer_pr
    \/ build
    \/ build_inner_connect
    \/ build_inner_ensure
    \/ build_inner_publish
    \/ build_reply

SpecBuild == InitBuild /\ [][NextBuild]_vars

----------------------------------------------------------------------------
(* Webhook events                                                          *)

\* issue_url.split('/'): the trailing pieces of the URL
IssueUrlOk == <<"issues", "42">>

IssueUrlBad == <<"issues", "42", "comments">>

\* The issue URL of a pull request whose description lists no packages.
IssueUrlBare == <<"issues", "7">>

\* Logins that the public-members endpoint knows.
OrgPublicMembers == {"alice"}

MentionWord == <<"@aosc-buildit-bot">>

\* A comment body: whether it begins with whitespace, and its
\* whitespace-delimited words.
Body(lead, words) == [lead_ws |-> lead, words |-> words]

Comment(url, login, body) ==
    Some([issue_url |-> url, login |-> login, body |-> body])

\* Payloads of github-webhooks deliveries; None does not decode as a
\* WebhookComment.
WebhookEvents ==
    {None,
     Comment(IssueUrlOk, "mallory", Body(TRUE, <<MentionWord, <<"build">> >>)),
     Comment(IssueUrlOk, "alice", Body(FALSE, <<MentionWord>>)),
     Comment(IssueUrlOk, "alice", Body(FALSE, <<MentionWord, <<"status">> >>)),
     Comment(IssueUrlOk, "alice", Body(FALSE, <<MentionWord, <<"build">> >>)),
     Comment(IssueUrlOk, "mallory",
             Body(FALSE, <<MentionWord, <<"build">>, <<"amd64">> >>)),
     Comment(IssueUrlBare, "alice",
             Body(FALSE, <<MentionWord, <<"build">>, <<"arm64", "arm64">> >>)),
     Comment(IssueUrlBad, "alice", Body(FALSE, <<MentionWord, <<"build">> >>))}

\* Pull requests the code host may return to the webhook handler for the
\* pull request number num.
WebhookPullRequests(num) ==
    IF num = 7
    THEN {[head_ref |-> <<"topic">>, merged |-> TRUE,
           body |-> Some(<< <<"Topic">> >>)]}
    ELSE {[head_ref |-> <<"topic">>, merged |-> FALSE,
           body |-> Some(<< <<"Topic">>, <<"#buildit", "bash", "fish">> >>)]}

\* Results of get_archs(path, &packages).
GetArchsResults == {<<"amd64">>}

\* Answers of GET /orgs/aosc-dev/public_members/{user}.
MemberResponses(login) ==
    IF login \in OrgPublicMembers
    THEN {"204", "500", "unreachable"}
    ELSE {"404", "500", "unreachable"}

----------------------------------------------------------------------------
(* handle_webhook_comment and its helpers                                  *)

ResultOk == [kind |-> "Ok", r |-> 0]

DoNotRetry == [kind |-> "DoNotRetry", r |-> 0]

Retry(r) == [kind |-> "Retry", r |-> r]

\* job::update_retry
update_retry(rt) == IF rt = None THEN Retry(1) ELSE Retry(rt[1] + 1)

\* The mention test applied to the trimmed body.
StartsWithMentionTrimmed(body) ==
    /\ body.words # <<>>
    /\ body.words[1][1] \in {"@aosc-buildit-bot", "@aosc-buildit-bot2"}

\* comment.comment.body.starts_with("@aosc-buildit-bot")
StartsWithMention(body) ==
    /\ ~body.lead_ws
    /\ body.words # <<>>
    /\ body.words[1][1] \in {"@aosc-buildit-bot", "@aosc-buildit-bot2"}

\* issue_url.split('/').last().and_then(|x| x.parse::<u64>().ok())
PrNumber(url) == ParseU64(url[Len(url)])

\* github::get_packages_from_pr
get_packages_from_pr(pr) == PackagesFromBody(pr.body)

\* The membership check with 404 taken for a success.
is_org_user_lenient(response) ==
    CASE response = "unreachable" -> "err"
      [] response = "500"         -> "err"
      [] OTHER                    -> "true"

\* is_org_user: Ok(true), Ok(false) or Err, as "true", "false", "err".
\* error_for_status turns the 4xx and 5xx answers into errors; of these only
\* 404 is Ok(false).
is_org_user(response) ==
    CASE response = "unreachable" -> "err"
      [] response = "404"         -> "false"
      [] response = "500"         -> "err"
      [] OTHER                    -> "true"

\* The Job send_build_request builds for one architecture.
MakeWebhookJob(req, arch) ==
    [packages  |-> req.packages,
     git_ref   |-> req.git_ref,
     arch      |-> arch,
     source    |-> <<"Github", req.num>>,
     github_pr |-> Some(req.num)]

\* The queues after the Jobs of archs[1..n] have been published.
RECURSIVE PublishJobs(_, _, _, _)
PublishJobs(qs, req, archs, n) ==
    IF n = 0 THEN qs
    ELSE basic_publish(PublishJobs(qs, req, archs, n - 1),
                       QueueName(archs[n]), MakeWebhookJob(req, archs[n]))

RECURSIVE EnsureQueues(_, _, _)
EnsureQueues(decl, archs, n) ==
    IF n = 0 THEN decl
    ELSE ensure_job_queue(EnsureQueues(decl, archs, n - 1), QueueName(archs[n]))

\* job::send_build_request: the ways the fan-out can end. ndecl queues were
\* declared and npub Jobs published when it returned.
SendOutcomes(archs) ==
    {[ok |-> TRUE, ndecl |-> Len(archs), npub |-> Len(archs)]}
        \cup {[ok |-> FALSE, ndecl |-> k, npub |-> k] :
                 k \in IF archs = <<>> THEN {} ELSE 0..Len(archs)}
        \cup {[ok |-> FALSE, ndecl |-> k + 1, npub |-> k] :
                 k \in 0..(Len(archs) - 1)}

\* create_github_comment: the ways posting the new-job summary can end.
CommentOutcomes(token) ==
    IF token = None THEN {"no_token"} ELSE {"posted", "builder_err", "post_err"}

\* create_github_comment that takes a failed post for a success.
create_github_comment_swallow(rt, outcome) ==
    CASE outcome = "builder_err" -> DoNotRetry
      [] OTHER                   -> ResultOk

create_github_comment(rt, outcome) ==
    CASE outcome = "builder_err" -> DoNotRetry
      [] outcome = "post_err"    -> update_retry(rt)
      [] OTHER                   -> ResultOk

\* What one call of handle_webhook_comment did: its result, and for the
\* history the answer of the membership check and the request dispatched.
Outcome(result, member, req, send, post) ==
    [result |-> result, member |-> member, req |-> req, send |-> send,
     post |-> post]

NoSend == [ok |-> FALSE, ndecl |-> 0, npub |-> 0]

\* handle_webhook_comment: every outcome the call can have for `comment`
\* with the counter `rt`, `token` being ARGS.github_access_token.
handle_webhook_comment(comment, rt, token) ==
    IF ~StartsWithMention(comment.body)
    THEN {Outcome(DoNotRetry, "not_called", None, NoSend, "none")}
    ELSE LET body == Tail(comment.body.words)
         IN
         IF body = <<>>
         THEN {Outcome([kind |-> "Panic", r |-> 0], "not_called", None, NoSend, "none")}
         ELSE IF body[1] # <<"build">>
         THEN {Outcome(DoNotRetry, "not_called", None, NoSend, "none")}
         ELSE IF PrNumber(comment.issue_url) = None
         THEN {Outcome(update_retry(rt), "not_called", None, NoSend, "none")}
         ELSE
         LET num == PrNumber(comment.issue_url)[1]
         IN
         {Outcome(update_retry(rt), "not_called", None, NoSend, "none")}
         \cup UNION {
           LET packages == get_packages_from_pr(pr)
               archsets == IF Len(body) >= 2 THEN {body[2]} ELSE GetArchsResults
               git_ref  == IF pr.merged THEN <<"stable">> ELSE pr.head_ref
           IN UNION {
             UNION {
               LET member == is_org_user(resp)
                   req == [git_ref |-> git_ref, packages |-> packages,
                           archs |-> archs, num |-> num]
               IN  CASE member = "false" ->
                            {Outcome(DoNotRetry, member, None, NoSend, "none")}
                     [] member = "err" ->
                            {Outcome(update_retry(rt), member, None, NoSend, "none")}
                     [] OTHER ->
                            UNION {
                              IF send.ok
                              THEN {Outcome(create_github_comment(rt, post),
                                            member, Some(req), send, post) :
                                       post \in CommentOutcomes(token)}
                              ELSE {Outcome(update_retry(rt), member, Some(req),
                                            send, "none")}
                              : send \in SendOutcomes(NormalizeArchs(archs))}
               : resp \in MemberResponses(comment.login)}
             : archs \in archsets}
           : pr \in WebhookPullRequests(num)}

----------------------------------------------------------------------------
(* The webhook consumer: get_webhooks_message                              *)

\* The value of `r` at which the loop gives an event up.
RetryLimit == 5

BotLogin == "aosc-buildit-bot"

\* A delivery of the github-webhooks queue. `fails` and `dispatched` are
\* history: the retryable failures of this event so far, and the
\* architectures for which a Job of this event has been published.
Delivery(data) == [data |-> data, fails |-> 0, dispatched |-> {}]

\* The events that carry a build command with a pull-request number.
IsBuildEvent(e) ==
    /\ e # None
    /\ StartsWithMention(e[1].body)
    /\ Len(e[1].body.words) >= 2
    /\ e[1].body.words[2] = <<"build">>
    /\ PrNumber(e[1].issue_url) # None

\* The match without the give-up branch: every Retry(r) is stored.
MatchResultNoLimit(result, rt) ==
    CASE result.kind \in {"Ok", "DoNotRetry"} -> [ack |-> TRUE, retry |-> rt]
      [] result.kind = "Retry" -> [ack |-> FALSE, retry |-> Some(result.r)]
      [] OTHER -> [ack |-> FALSE, retry |-> rt]

\* The match that acknowledges at the limit and keeps the counter.
MatchResultKeepsCounter(result, rt) ==
    CASE result.kind \in {"Ok", "DoNotRetry"} -> [ack |-> TRUE, retry |-> rt]
      [] result.kind = "Retry" ->
            [ack |-> result.r = RetryLimit, retry |-> Some(result.r)]
      [] OTHER -> [ack |-> FALSE, retry |-> rt]

\* The match on the handler's result: whether the delivery is acknowledged
\* and the new value of `retry`.
MatchResult(result, rt) ==
    CASE result.kind \in {"Ok", "DoNotRetry"} -> [ack |-> TRUE, retry |-> rt]
      [] result.kind = "Retry" ->
            IF result.r = RetryLimit
            THEN [ack |-> TRUE, retry |-> None]
            ELSE [ack |-> FALSE, retry |-> Some(result.r)]
      [] OTHER -> [ack |-> FALSE, retry |-> rt]

PublishedArchs(o) ==
    IF o.req = None THEN <<>>
    ELSE SubSeq(NormalizeArchs(o.req[1].archs), 1, o.send.npub)

\* One iteration of `while let Some(delivery) = consumer.next().await` for
\* the delivery d, the handler ending with outcome o.
Iteration(d, o) ==
    LET m     == MatchResult(o.result, retry)
        archs == IF o.req = None THEN <<>> ELSE NormalizeArchs(o.req[1].archs)
        after == [d EXCEPT
                    !.fails = @ + (IF o.result.kind = "Retry" THEN 1 ELSE 0),
                    !.dispatched = @ \cup Range(PublishedArchs(o))]
    IN  /\ retry' = m.retry
        /\ whUnacked' = IF m.ack THEN whUnacked ELSE whUnacked (+) SetToBag({after})
        /\ whPc' = IF o.result.kind = "Panic" THEN "panicked" ELSE whPc
        /\ IF o.req = None
           THEN /\ UNCHANGED <<declared, queues>>
                /\ pubLog' = <<>>
           ELSE /\ declared' = EnsureQueues(declared, archs, o.send.ndecl)
                /\ queues' = PublishJobs(queues, o.req[1], archs, o.send.npub)
                /\ pubLog' = [i \in 1..o.send.npub |->
                                 [queue |-> QueueName(archs[i]),
                                  job   |-> MakeWebhookJob(o.req[1], archs[i])]]
        /\ prComments' =
               IF o.post = "posted"
               THEN Append(prComments, [pr |-> o.req[1].num, login |-> BotLogin,
                                        body |-> Some(<<"new_job_summary">>)])
               ELSE prComments
        /\ whCall' = Some([data |-> d.data, called |-> TRUE,
                           retry_in |-> retry, fails_before |-> d.fails,
                           dispatched_before |-> d.dispatched,
                           result |-> o.result, member |-> o.member,
                           invoked |-> o.req # None,
                           send_ok |-> o.send.ok, post |-> o.post,
                           acked |-> m.ack, retry_out |-> m.retry])

\* An iteration for a delivery whose payload does not decode: the handler is
\* not called and nothing else is done with the delivery.
IterationUndecodable(d) ==
    /\ whUnacked' = whUnacked (+) SetToBag({d})
    /\ pubLog' = <<>>
    /\ whCall' = Some([data |-> d.data, called |-> FALSE,
                       retry_in |-> retry, fails_before |-> d.fails,
                       dispatched_before |-> d.dispatched,
                       result |-> [kind |-> "None", r |-> 0],
                       member |-> "not_called",
                       invoked |-> FALSE,
                       send_ok |-> FALSE, post |-> "none",
                       acked |-> FALSE, retry_out |-> retry])
    /\ UNCHANGED <<declared, queues, retry, whPc, prComments>>

LoopBody(d) ==
    IF d.data = None
    THEN IterationUndecodable(d)
    ELSE \E o \in handle_webhook_comment(d.data[1], retry, githubAccessToken) :
             Iteration(d, o)

\* The loop takes a delivery of an event published for the first time.
webhook_delivery ==
    /\ whPc = "consuming"
    /\ whReady = EmptyBag
    /\ whNext < MaxDeliveries
    /\ \E e \in WebhookEvents :
          /\ IsBuildEvent(e) => whBuilds < MaxBuildEvents
          /\ whBuilds' = IF IsBuildEvent(e) THEN whBuilds + 1 ELSE whBuilds
          /\ LoopBody(Delivery(e))
    /\ whNext' = whNext + 1
    /\ UNCHANGED <<whReady, whRestarts, githubAccessToken, chatVars, workerVars>>

\* The loop takes a delivery the broker has requeued.
webhook_redelivery ==
    /\ whPc = "consuming"
    /\ whNext < MaxDeliveries
    /\ \E d \in BagToSet(whReady) :
          /\ LoopBody(d)
          /\ whReady' = whReady (-) SetToBag({d})
    /\ whNext' = whNext + 1
    /\ UNCHANGED <<whBuilds, whRestarts, githubAccessToken, chatVars, workerVars>>

\* consumer.next() yields Err(err): logged, `continue`.
webhook_delivery_error ==
    /\ whPc = "consuming"
    /\ UNCHANGED vars

\* consumer.next() yields None (the channel is closed): the loop ends and the
\* function returns Ok. The broker requeues what was not acknowledged, and
\* the consumer is started again: get_webhooks_message begins with
\* `retry = None`. The same restart follows a panic of the handler.
webhook_restart ==
    /\ whPc \in {"consuming", "panicked"}
    /\ whRestarts < MaxRestarts
    /\ whRestarts' = whRestarts + 1
    /\ whReady' = whReady (+) whUnacked
    /\ whUnacked' = EmptyBag
    /\ retry' = None
    /\ whPc' = "consuming"
    /\ whCall' = None
    /\ UNCHANGED <<brokerVars, chatVars, workerVars, whNext, whBuilds, prComments,
                   githubAccessToken>>

ChatOff ==
    /\ chat = <<>>
    /\ bCmd = None
    /\ bPc = "done"
    /\ bReq = None
    /\ bArchs = <<>>
    /\ bIdx = 0
    /\ bResult = "none"

Init ==
    /\ BrokerInit
    /\ ChatOff
    /\ WebhookInit
    /\ WorkersOff

Next ==
    \/ webhook_delivery
    \/ webhook_redelivery
    \/ webhook_delivery_error
    \/ webhook_restart

Spec == Init /\ [][Next]_vars

\* The broker hands a requeued delivery to the consumer that awaits
\* consumer.next().
SpecLive == Spec /\ WF_vars(webhook_redelivery)

----------------------------------------------------------------------------
(* The job completion consumer: job_completion_worker                      *)

\* Deliveries the completion consumer takes in one behaviour.
MaxResults == 3

\* The starts of a worker's inner function that the history counts.
MaxStartsCounted == 1

\* The comments of the page that list_comments(pr).send() returns: the
\* request names no page, so it is the first page of the listing (30
\* comments on the code host, two here).
PerPage == 2

ResultPr == 42

OtherLogin == "alice"

\* result.job of the JobResults: the Job of a request for bash and fish.
ResultJob(pr) ==
    [packages  |-> <<"bash", "fish">>,
     git_ref   |-> <<"stable">>,
     arch      |-> "amd64",
     tg_chatid |-> ChatId,
     github_pr |-> pr]

JobResult(pr, successful, failed) ==
    [job |-> ResultJob(pr),
     successful_packages |-> successful,
     failed_package |-> failed]

\* The payloads published to job-completion: None is a payload that
\* serde_json::from_slice::<JobResult> does not decode.
JobResults ==
    {JobResult(Some(ResultPr), <<"bash", "fish">>, None),
     JobResult(Some(ResultPr), <<"fish", "bash">>, None),
     JobResult(Some(ResultPr), <<"bash">>, None),
     JobResult(None, <<"bash", "vim">>, Some("fish"))}

ResultPayloads == {None} \cup {Some(r) : r \in JobResults}

\* Vec<String> == Vec<String>: the same length and the same element at
\* every index.
VecEq(a, b) ==
    /\ Len(a) = Len(b)
    /\ \A i \in 1..Len(a) : a[i] = b[i]

\* let success = result.successful_packages == result.job.packages;
Success(result) == VecEq(result.successful_packages, result.job.packages)

\* The text of the report, sent to the chat session and, as new_content,
\* written to the pull request: the glyph and the package lists.
Report(result) ==
    [kind       |-> "job_completed",
     success    |-> Success(result),
     packages   |-> result.job.packages,
     successful |-> result.successful_packages,
     failed     |-> result.failed_package]

\* The comments of pull request pr, as indices of prComments, in the order
\* of the listing (ascending by creation).
RECURSIVE CommentIdsFrom(_, _, _)
CommentIdsFrom(comments, pr, k) ==
    IF k > Len(comments) THEN <<>>
    ELSE IF comments[k].pr = pr
         THEN <<k>> \o CommentIdsFrom(comments, pr, k + 1)
         ELSE CommentIdsFrom(comments, pr, k + 1)

CommentIds(comments, pr) == CommentIdsFrom(comments, pr, 1)

\* list_comments(pr).send(): the first page.
Page(comments, pr) ==
    LET ids == CommentIds(comments, pr)
    IN  SubSeq(ids, 1, IF Len(ids) < PerPage THEN Len(ids) ELSE PerPage)

\* for comment in page { if comment.user.login == "aosc-buildit-bot" {
\* found = true; ...; break; } }: the comment the loop stops at, or None.
RECURSIVE FindBotComment(_, _)
FindBotComment(comments, page) ==
    IF page = <<>> THEN None
    ELSE IF comments[Head(page)].login = BotLogin THEN Some(Head(page))
         ELSE FindBotComment(comments, Tail(page))

\* body = orig + "\n" + new_content when the comment has a body, else
\* new_content.
AppendedBody(orig, new_content) ==
    IF orig = None THEN Some(<<new_content>>)
    ELSE Some(Append(orig[1], new_content))

\* A delivery of the job-completion queue, with the broker's redelivered
\* flag.
ResultDelivery(data) == [data |-> data, redelivered |-> FALSE]

Requeued(bag) ==
    LET ds == BagToSet(bag)
        flagged(d) == [d EXCEPT !.redelivered = TRUE]
    IN  [e \in {flagged(d) : d \in ds} |->
            (IF e \in ds THEN bag[e] ELSE 0)
          + (IF [e EXCEPT !.redelivered = FALSE] \in ds
             THEN bag[[e EXCEPT !.redelivered = FALSE]] ELSE 0)]

\* The deliveries with payload `data` that the broker holds in the bags.
Held(data, unacked, ready) ==
    LET copies(bag) == CopiesIn([data |-> data, redelivered |-> FALSE], bag)
                         + CopiesIn([data |-> data, redelivered |-> TRUE], bag)
    IN  copies(unacked) + copies(ready)

\* Whether the annotation block runs: a token is configured and the Job
\* carries a pull-request number.
Annotates(result, token) == token # None /\ result.job.github_pr # None

\* The outcomes of a pass that acknowledges before it annotates: the
\* delivery is acknowledged although a call of the annotation block fails.
HandleOutcomesAckFirst(result, token, comments) ==
    {[send |-> "ok", annot |-> a, ack |-> "ok", target |-> None] :
        a \in IF token # None /\ result.job.github_pr # None
              THEN {"list_err", "crab_err"} ELSE {"skipped"}}

\* The ways one pass over a decoded result can go. `send` is
\* bot.send_message; `annot` is the annotation block: "skipped" when it does
\* not run, the failing call when one fails ("list_err", "crab_err",
\* "update_err", "create_err"), else "update_ok" or "create_ok" by whether
\* the loop over the page found a comment of the bot; `ack` is delivery.ack.
\* A call after a failed one is "not_reached": `?` has returned the error.
HandleOutcomes(result, token, comments) ==
    LET found == IF Annotates(result, token)
                 THEN FindBotComment(comments,
                                     Page(comments, result.job.github_pr[1]))
                 ELSE None
        annots == IF ~Annotates(result, token) THEN {"skipped"}
                  ELSE {"list_err", "crab_err"}
                         \cup (IF found # None
                               THEN {"update_ok", "update_err"}
                               ELSE {"create_ok", "create_err"})
        finished == {"skipped", "update_ok", "create_ok"}
    IN  {[send |-> "err", annot |-> "not_reached", ack |-> "not_reached",
          target |-> None]}
          \cup {[send |-> "ok", annot |-> a, ack |-> k, target |-> found] :
                  a \in annots \ finished, k \in {"not_reached"}}
          \cup {[send |-> "ok", annot |-> a, ack |-> k, target |-> found] :
                  a \in annots \cap finished, k \in {"ok", "err"}}

\* The comments after the annotation block.
Annotated(comments, result, o) ==
    CASE o.annot = "update_ok" ->
             [comments EXCEPT ![o.target[1]].body =
                                  AppendedBody(@, Report(result))]
      [] o.annot = "create_ok" ->
             Append(comments, [pr    |-> result.job.github_pr[1],
                               login |-> BotLogin,
                               body  |-> Some(<<Report(result)>>)])
      [] OTHER -> comments

\* One iteration of the loop for delivery d with a decoded result, going
\* the way o; `ready` is what the queue holds for redelivery besides d. An
\* error returned by `?` ends job_completion_worker_inner:
\* its connection is dropped and the broker requeues what the consumer did
\* not acknowledge.
HandleResult(d, ready, o) ==
    LET result == d.data[1]
        failed == o.ack = "not_reached"
    IN  /\ chat' = IF o.send = "ok" THEN Append(chat, Report(result)) ELSE chat
        /\ prComments' = Annotated(prComments, result, o)
        /\ jcPc' = IF failed THEN "backoff" ELSE "consuming"
        /\ jcUnacked' =
              IF failed THEN EmptyBag
              ELSE IF o.ack = "ok" THEN jcUnacked
              ELSE jcUnacked (+) SetToBag({d})
        /\ jcReady' =
              IF failed
              THEN ready (+) Requeued(jcUnacked (+) SetToBag({d}))
              ELSE ready
        /\ jcCall' = Some([data |-> d.data, redelivered |-> d.redelivered,
                           decoded |-> TRUE, sent |-> o.send = "ok",
                           annot |-> o.annot, target |-> o.target,
                           ack |-> o.ack, acked |-> o.ack = "ok",
                           returned |-> failed,
                           before |-> prComments, sent_before |-> Len(chat),
                       held_before |-> Held(d.data, jcUnacked, ready)])

\* An iteration that acknowledges only inside the if-let: a payload that
\* does not decode is left unacknowledged.
SkipResultNoAck(d, ready, k) ==
    /\ jcUnacked' = jcUnacked (+) SetToBag({d})
    /\ jcCall' = Some([data |-> d.data, redelivered |-> d.redelivered,
                       decoded |-> FALSE, sent |-> FALSE,
                       annot |-> "skipped", target |-> None,
                       ack |-> "not_reached", acked |-> FALSE,
                       returned |-> FALSE,
                       before |-> prComments, sent_before |-> Len(chat),
                       held_before |-> Held(d.data, jcUnacked, ready)])
    /\ jcReady' = ready
    /\ UNCHANGED <<chat, prComments, jcPc>>

\* An iteration for a delivery whose payload does not decode: the if-let is
\* skipped and the delivery is acknowledged.
SkipResult(d, ready, k) ==
    /\ jcUnacked' = IF k = "ok" THEN jcUnacked ELSE jcUnacked (+) SetToBag({d})
    /\ jcCall' = Some([data |-> d.data, redelivered |-> d.redelivered,
                       decoded |-> FALSE, sent |-> FALSE,
                       annot |-> "skipped", target |-> None,
                       ack |-> k, acked |-> k = "ok", returned |-> FALSE,
                       before |-> prComments, sent_before |-> Len(chat),
                       held_before |-> Held(d.data, jcUnacked, ready)])
    /\ jcReady' = ready
    /\ UNCHANGED <<chat, prComments, jcPc>>

CompletionLoopBody(d, ready) ==
    IF d.data = None
    THEN \E k \in {"ok", "err"} : SkipResult(d, ready, k)
    ELSE \E o \in HandleOutcomes(d.data[1], githubAccessToken, prComments) :
             HandleResult(d, ready, o)

jcOthers ==
    <<brokerVars, bCmd, bPc, bReq, bArchs, bIdx, bResult,
      whPc, retry, whNext, whReady, whUnacked, whBuilds, whRestarts,
      githubAccessToken, whCall, hbVars, regVars, declVars>>

\* job_completion_worker_inner up to basic_consume: every call is followed
\* by `?`.
jc_start ==
    /\ jcPc = "starting"
    /\ jcPc' \in {"consuming", "backoff"}
    /\ jcStarts' = IF jcStarts < MaxStartsCounted THEN jcStarts + 1 ELSE jcStarts
    /\ UNCHANGED <<jcOthers, chat, prComments, jcReady, jcUnacked, jcBudget,
                   jcCall>>

\* The loop takes a delivery of a result published for the first time.
jc_delivery ==
    /\ jcPc = "consuming"
    /\ jcReady = EmptyBag
    /\ jcBudget > 0
    /\ \E data \in ResultPayloads :
          CompletionLoopBody(ResultDelivery(data), jcReady)
    /\ jcBudget' = jcBudget - 1
    /\ UNCHANGED <<jcOthers, jcStarts>>

\* The loop takes a delivery the broker has requeued.
jc_redelivery ==
    /\ jcPc = "consuming"
    /\ jcBudget > 0
    /\ \E d \in BagToSet(jcReady) :
          CompletionLoopBody(d, jcReady (-) SetToBag({d}))
    /\ jcBudget' = jcBudget - 1
    /\ UNCHANGED <<jcOthers, jcStarts>>

\* consumer.next() yields Err(err): logged, `continue`.
jc_delivery_error ==
    /\ jcPc = "consuming"
    /\ UNCHANGED vars

\* consumer.next() yields None: the loop ends and the function returns
\* Ok(()); its connection is dropped and the broker requeues what the
\* consumer did not acknowledge.
jc_stream_end ==
    /\ jcPc = "consuming"
    /\ jcPc' = "backoff"
    /\ jcReady' = jcReady (+) Requeued(jcUnacked)
    /\ jcUnacked' = EmptyBag
    /\ UNCHANGED <<jcOthers, chat, prComments, jcBudget, jcStarts, jcCall>>

\* A supervisor that gives up after the starts it has counted.
jc_backoff_done_bounded ==
    /\ jcPc = "backoff"
    /\ jcStarts < MaxStartsCounted
    /\ jcPc' = "starting"
    /\ UNCHANGED <<jcOthers, chat, prComments, jcReady, jcUnacked, jcBudget,
                   jcStarts, jcCall>>

\* job_completion_worker: the error, if any, is logged, and after
\* tokio::time::sleep(Duration::from_secs(5)) the loop calls
\* job_completion_worker_inner again.
jc_backoff_done ==
    /\ jcPc = "backoff"
    /\ jcPc' = "starting"
    /\ UNCHANGED <<jcOthers, chat, prComments, jcReady, jcUnacked, jcBudget,
                   jcStarts, jcCall>>

\* Comments a pull request carries before a result arrives: of other users,
\* and the new-job summaries the webhook consumer has posted.
OtherComment ==
    [pr |-> ResultPr, login |-> OtherLogin, body |-> Some(<<"text">>)]

SummaryComment ==
    [pr |-> ResultPr, login |-> BotLogin, body |-> Some(<<"new_job_summary">>)]

InitialComments ==
    {<<>>,
     <<OtherComment>>,
     <<OtherComment, OtherComment>>,
     <<OtherComment, SummaryComment>>,
     <<SummaryComment, SummaryComment>>}

WebhookOff ==
    /\ whPc = "off"
    /\ retry = None
    /\ whNext = 0
    /\ whReady = EmptyBag
    /\ whUnacked = EmptyBag
    /\ whBuilds = 0
    /\ whRestarts = 0
    /\ whCall = None

\* main has spawned job_completion_worker.
CompletionInit ==
    /\ jcPc = "starting"
    /\ jcReady = EmptyBag
    /\ jcUnacked = EmptyBag
    /\ jcStarts = 0
    /\ jcCall = None

InitCompletion ==
    /\ BrokerInit
    /\ ChatOff
    /\ WebhookOff
    /\ HeartbeatOff
    /\ CompletionInit
    /\ jcBudget = MaxResults
    /\ prComments \in InitialComments
    /\ githubAccessToken \in {None, Some("token")}

NextCompletion ==
    \/ jc_start
    \/ jc_delivery
    \/ jc_redelivery
    \/ jc_delivery_error
    \/ jc_stream_end
    \/ jc_backoff_done

SpecCompletion == InitCompletion /\ [][NextCompletion]_vars

----------------------------------------------------------------------------
(* The heartbeat consumer, the registry WORKERS and status                 *)

\* Deliveries the heartbeat consumer takes in one behaviour.
MaxHeartbeats == 3

\* Steps of the clock in one behaviour.
MaxTicks == 3

\* Seconds between two readings of Local::now() that differ.
TickSeconds == 350

WorkerA == [hostname |-> "a", arch |-> "amd64", pid |-> 1]

WorkerB == [hostname |-> "b", arch |-> "amd64", pid |-> 1]

\* The identifiers, in the order of #[derive(Ord)]: by hostname, then arch,
\* then pid.
WorkerIdentifiers == <<WorkerA, WorkerB>>

\* The payloads published to worker-heartbeat: None is a payload that
\* serde_json::from_slice::<WorkerHeartbeat> does not decode.
HeartbeatPayloads ==
    {None} \cup {Some([identifier |-> id]) : id \in Range(WorkerIdentifiers)}

HeartbeatDelivery(data) == [data |-> data, redelivered |-> FALSE]

\* The update that stores nothing when the identifier is new.
RecordHeartbeatUpdateOnly(workers, identifier, t) ==
    IF identifier \in DOMAIN workers
    THEN [workers EXCEPT ![identifier] = t]
    ELSE workers

\* The update that sets the time of every entry.
RecordHeartbeatRefreshAll(workers, identifier, t) ==
    [id \in DOMAIN workers \cup {identifier} |-> t]

\* if let Some(status) = lock.get_mut(&heartbeat.identifier) {
\*     status.last_heartbeat = Local::now();
\* } else { lock.insert(identifier, WorkerStatus { last_heartbeat: now }) }
RecordHeartbeat(workers, identifier, t) ==
    IF identifier \in DOMAIN workers
    THEN [workers EXCEPT ![identifier] = t]
    ELSE [id \in DOMAIN workers \cup {identifier} |->
             IF id = identifier THEN t ELSE workers[id]]

\* One iteration of the loop of heartbeat_worker_inner for delivery d;
\* `ready` is what the queue holds for redelivery besides d. The ack is
\* inside the if-let: a payload that does not decode is not acknowledged.
HeartbeatLoopBody(d, ready) ==
    /\ hbReady' = ready
    /\ IF d.data = None
       THEN /\ hbUnacked' = hbUnacked (+) SetToBag({d})
            /\ hbCall' = Some([data |-> d.data, decoded |-> FALSE,
                               ack |-> "not_reached", at |-> now,
                               before |-> WORKERS,
                               beside_backoff |-> jcPc = "backoff"])
            /\ UNCHANGED WORKERS
       ELSE \E k \in {"ok", "err"} :
            /\ WORKERS' = RecordHeartbeat(WORKERS, d.data[1].identifier, now)
            /\ hbUnacked' = IF k = "ok" THEN hbUnacked
                            ELSE hbUnacked (+) SetToBag({d})
            /\ hbCall' = Some([data |-> d.data, decoded |-> TRUE,
                               ack |-> k, at |-> now, before |-> WORKERS,
                               beside_backoff |-> jcPc = "backoff"])

hbOthers ==
    <<brokerVars, chatVars, whVars, jcVars, regVars, declVars>>

\* heartbeat_worker_inner up to basic_consume: every call is followed by
\* `?`.
hb_start ==
    /\ hbPc = "starting"
    /\ hbPc' \in {"consuming", "backoff"}
    /\ hbStarts' = IF hbStarts < MaxStartsCounted THEN hbStarts + 1 ELSE hbStarts
    /\ UNCHANGED <<hbOthers, hbReady, hbUnacked, hbBudget, hbCall, WORKERS, now,
                   statusReport>>

\* The loop of a heartbeat consumer that cannot run while the completion
\* worker sleeps (a sleep that blocks the thread both tasks run on).
hb_delivery_blocked_by_sleep ==
    /\ hbPc = "consuming"
    /\ jcPc # "backoff"
    /\ hbReady = EmptyBag
    /\ hbBudget > 0
    /\ \E data \in HeartbeatPayloads :
          HeartbeatLoopBody(HeartbeatDelivery(data), hbReady)
    /\ hbBudget' = hbBudget - 1
    /\ UNCHANGED <<hbOthers, hbPc, hbStarts, now, statusReport>>

\* The loop takes a delivery of a heartbeat published for the first time.
hb_delivery ==
    /\ hbPc = "consuming"
    /\ hbReady = EmptyBag
    /\ hbBudget > 0
    /\ \E data \in HeartbeatPayloads :
          HeartbeatLoopBody(HeartbeatDelivery(data), hbReady)
    /\ hbBudget' = hbBudget - 1
    /\ UNCHANGED <<hbOthers, hbPc, hbStarts, now, statusReport>>

\* The loop takes a delivery the broker has requeued.
hb_redelivery ==
    /\ hbPc = "consuming"
    /\ hbBudget > 0
    /\ \E d \in BagToSet(hbReady) :
          HeartbeatLoopBody(d, hbReady (-) SetToBag({d}))
    /\ hbBudget' = hbBudget - 1
    /\ UNCHANGED <<hbOthers, hbPc, hbStarts, now, statusReport>>

\* consumer.next() yields Err(err): logged, `continue`.
hb_delivery_error ==
    /\ hbPc = "consuming"
    /\ UNCHANGED vars

\* The end of an inner function that owns the registry: the entries go
\* with it.
hb_stream_end_clears ==
    /\ hbPc = "consuming"
    /\ hbPc' = "backoff"
    /\ hbReady' = hbReady (+) Requeued(hbUnacked)
    /\ hbUnacked' = EmptyBag
    /\ WORKERS' = <<>>
    /\ UNCHANGED <<hbOthers, hbBudget, hbStarts, hbCall, now, statusReport>>

\* consumer.next() yields None: the loop ends and the function returns
\* Ok(()); its connection is dropped and the broker requeues what the
\* consumer did not acknowledge.
hb_stream_end ==
    /\ hbPc = "consuming"
    /\ hbPc' = "backoff"
    /\ hbReady' = hbReady (+) Requeued(hbUnacked)
    /\ hbUnacked' = EmptyBag
    /\ UNCHANGED <<hbOthers, hbBudget, hbStarts, hbCall, WORKERS, now,
                   statusReport>>

\* heartbeat_worker: the error, if any, is logged, and after
\* tokio::time::sleep(Duration::from_secs(5)) the loop calls
\* heartbeat_worker_inner again.
hb_backoff_done ==
    /\ hbPc = "backoff"
    /\ hbPc' = "starting"
    /\ UNCHANGED <<hbOthers, hbReady, hbUnacked, hbBudget, hbStarts, hbCall,
                   WORKERS, now, statusReport>>

\* Time passes: Local::now() returns a later time from now on.
tick ==
    /\ now < MaxTicks * TickSeconds
    /\ now' = now + TickSeconds
    /\ UNCHANGED <<hbOthers, hbPc, hbReady, hbUnacked, hbBudget, hbStarts,
                   hbCall, WORKERS, statusReport>>

\* status, the Server Status part: one line per entry of the registry, in
\* the order of the BTreeMap, each "Online as of" the age of the entry.
ServerStatus(workers, t) ==
    LET ids == SelectSeq(WorkerIdentifiers, LAMBDA id : id \in DOMAIN workers)
    IN  [i \in 1..Len(ids) |->
            [identifier |-> ids[i], state |-> "Online",
             as_of |-> t - workers[ids[i]]]]

\* status(): the connection, the queue declarations and the management API
\* calls are each followed by `?`; when all succeed the report is returned.
status ==
    /\ hbPc # "off"
    /\ statusReport' \in {None, Some(ServerStatus(WORKERS, now))}
    /\ UNCHANGED <<hbOthers, hbPc, hbReady, hbUnacked, hbBudget, hbStarts,
                   hbCall, WORKERS, now>>

\* main has spawned heartbeat_worker.
HeartbeatInit ==
    /\ hbPc = "starting"
    /\ hbReady = EmptyBag
    /\ hbUnacked = EmptyBag
    /\ hbStarts = 0
    /\ hbCall = None
    /\ WORKERS = <<>>
    /\ now = 0
    /\ statusReport = None
    /\ RegistryIdle
    /\ DeclarationsIdle

InitHeartbeat ==
    /\ BrokerInit
    /\ ChatOff
    /\ WebhookOff
    /\ CompletionOff
    /\ HeartbeatInit
    /\ hbBudget = MaxHeartbeats
    /\ prComments = <<>>
    /\ githubAccessToken = None

NextHeartbeat ==
    \/ hb_start
    \/ hb_delivery
    \/ hb_redelivery
    \/ hb_delivery_error
    \/ hb_stream_end
    \/ hb_backoff_done
    \/ tick
    \/ status

SpecHeartbeat == InitHeartbeat /\ [][NextHeartbeat]_vars

----------------------------------------------------------------------------
(* The two workers main spawns, running side by side                       *)

\* Deliveries each worker takes in one behaviour of the two together.
MaxWorkerDeliveries == 1

\* What an earlier run of the server may have left in the queues without
\* acknowledging it.
LeftOverResults ==
    {EmptyBag,
     SetToBag({[data |-> Some(JobResult(None, <<"bash", "vim">>, Some("fish"))),
                redelivered |-> TRUE]})}

LeftOverHeartbeats ==
    {EmptyBag, SetToBag({[data |-> None, redelivered |-> TRUE]})}

InitWorkers ==
    /\ BrokerInit
    /\ ChatOff
    /\ WebhookOff
    /\ jcPc = "starting"
    /\ jcReady \in LeftOverResults
    /\ jcUnacked = EmptyBag
    /\ jcStarts = 0
    /\ jcCall = None
    /\ hbPc = "starting"
    /\ hbReady \in LeftOverHeartbeats
    /\ hbUnacked = EmptyBag
    /\ hbStarts = 0
    /\ hbCall = None
    /\ WORKERS = <<>>
    /\ now = 0
    /\ statusReport = None
    /\ RegistryIdle
    /\ DeclarationsIdle
    /\ jcBudget = MaxWorkerDeliveries
    /\ hbBudget = MaxWorkerDeliveries
    /\ prComments = <<>>
    /\ githubAccessToken = None

NextWorkers ==
    \/ jc_start
    \/ jc_delivery
    \/ jc_redelivery
    \/ jc_delivery_error
    \/ jc_stream_end
    \/ jc_backoff_done
    \/ hb_start
    \/ hb_delivery
    \/ hb_redelivery
    \/ hb_delivery_error
    \/ hb_stream_end
    \/ hb_backoff_done

\* Each supervisor is a task of the runtime: its sleep of 5 seconds ends and
\* the task is polled again.
SpecWorkers ==
    /\ InitWorkers
    /\ [][NextWorkers]_vars
    /\ WF_vars(jc_backoff_done)
    /\ WF_vars(hb_backoff_done)

----------------------------------------------------------------------------
(* The registry under its mutex: the heartbeat loop body and status, one   *)
(* step per statement that touches the lock                                *)

rgOthers == <<brokerVars, chatVars, whVars, jcVars, declVars>>

\* consumer.next() yields a delivery and the payload is decoded. A payload
\* that does not decode ends the iteration: the if-let is skipped.
heartbeat_take ==
    /\ hbPc = "consuming"
    /\ hbCur = None
    /\ hbBudget > 0
    /\ \E data \in HeartbeatPayloads :
          LET d == HeartbeatDelivery(data)
          IN  IF data = None
              THEN /\ hbUnacked' = hbUnacked (+) SetToBag({d})
                   /\ hbCur' = None
              ELSE /\ hbCur' = Some([d |-> d, pos |-> "lock"])
                   /\ UNCHANGED hbUnacked
    /\ hbBudget' = hbBudget - 1
    /\ UNCHANGED <<rgOthers, hbPc, hbReady, hbStarts, hbCall, WORKERS, now,
                   statusReport, lock, stRun>>

\* A heartbeat loop that enters the block without the mutex.
heartbeat_lock_unguarded ==
    /\ hbCur # None
    /\ hbCur[1].pos = "lock"
    /\ lock' = "heartbeat"
    /\ hbCur' = Some([hbCur[1] EXCEPT !.pos = "update"])
    /\ UNCHANGED <<rgOthers, hbVars, stRun>>

\* if let Ok(mut lock) = WORKERS.lock(): the thread waits until the mutex
\* is free.
heartbeat_lock ==
    /\ hbCur # None
    /\ hbCur[1].pos = "lock"
    /\ lock = "free"
    /\ lock' = "heartbeat"
    /\ hbCur' = Some([hbCur[1] EXCEPT !.pos = "update"])
    /\ UNCHANGED <<rgOthers, hbVars, stRun>>

\* The get_mut / insert under the guard.
heartbeat_update ==
    /\ hbCur # None
    /\ hbCur[1].pos = "update"
    /\ WORKERS' = RecordHeartbeat(WORKERS, hbCur[1].d.data[1].identifier, now)
    /\ hbCur' = Some([hbCur[1] EXCEPT !.pos = "unlock"])
    /\ UNCHANGED <<rgOthers, hbPc, hbReady, hbUnacked, hbBudget, hbStarts,
                   hbCall, now, statusReport, lock, stRun>>

\* The end of the if-let block drops the guard.
heartbeat_unlock ==
    /\ hbCur # None
    /\ hbCur[1].pos = "unlock"
    /\ lock' = "free"
    /\ hbCur' = Some([hbCur[1] EXCEPT !.pos = "ack"])
    /\ UNCHANGED <<rgOthers, hbVars, stRun>>

\* delivery.ack(BasicAckOptions::default()).await
heartbeat_ack ==
    /\ hbCur # None
    /\ hbCur[1].pos = "ack"
    /\ \E k \in {"ok", "err"} :
          hbUnacked' = IF k = "ok" THEN hbUnacked
                       ELSE hbUnacked (+) SetToBag({hbCur[1].d})
    /\ hbCur' = None
    /\ UNCHANGED <<rgOthers, hbPc, hbReady, hbBudget, hbStarts, hbCall,
                   WORKERS, now, statusReport, lock, stRun>>

\* status() up to the Server Status part: the connection, the queue
\* declarations and the management API calls, each followed by `?`.
status_begin ==
    /\ hbPc # "off"
    /\ IF stRun = None THEN TRUE ELSE stRun[1].pos = "done"
    /\ \/ /\ stRun' = None
          /\ statusReport' = None
       \/ /\ stRun' = Some([pos |-> "lock", idx |-> 1, snap |-> <<>>,
                            read |-> <<>>, lines |-> <<>>])
          /\ UNCHANGED statusReport
    /\ UNCHANGED <<rgOthers, hbPc, hbReady, hbUnacked, hbBudget, hbStarts,
                   hbCall, WORKERS, now, lock, hbCur>>

\* if let Ok(lock) = WORKERS.lock()
status_lock ==
    /\ stRun # None
    /\ stRun[1].pos = "lock"
    /\ lock = "free"
    /\ lock' = "status"
    /\ stRun' = Some([stRun[1] EXCEPT !.pos = "iterate", !.snap = WORKERS])
    /\ UNCHANGED <<rgOthers, hbVars, hbCur>>

\* One turn of `for (identifier, status) in lock.iter()`: the next
\* identifier in the order of the map, and its line if the map holds it.
status_line ==
    /\ stRun # None
    /\ stRun[1].pos = "iterate"
    /\ stRun[1].idx <= Len(WorkerIdentifiers)
    /\ LET id == WorkerIdentifiers[stRun[1].idx]
       IN  stRun' =
             IF id \in DOMAIN WORKERS
             THEN Some([stRun[1] EXCEPT
                          !.idx = @ + 1,
                          !.read = (id :> WORKERS[id]) @@ @,
                          !.lines = Append(@, [identifier |-> id,
                                               state |-> "Online",
                                               as_of |-> now - WORKERS[id]])])
             ELSE Some([stRun[1] EXCEPT !.idx = @ + 1])
    /\ UNCHANGED <<rgOthers, hbVars, lock, hbCur>>

\* The end of the if-let block drops the guard; Ok(res) is returned.
status_unlock ==
    /\ stRun # None
    /\ stRun[1].pos = "iterate"
    /\ stRun[1].idx > Len(WorkerIdentifiers)
    /\ lock' = "free"
    /\ statusReport' = Some(stRun[1].lines)
    /\ stRun' = Some([stRun[1] EXCEPT !.pos = "done"])
    /\ UNCHANGED <<rgOthers, hbPc, hbReady, hbUnacked, hbBudget, hbStarts,
                   hbCall, WORKERS, now, hbCur>>

\* The heartbeat consumer has connected and awaits deliveries.
InitRegistry ==
    /\ BrokerInit
    /\ ChatOff
    /\ WebhookOff
    /\ CompletionOff
    /\ hbPc = "consuming"
    /\ hbReady = EmptyBag
    /\ hbUnacked = EmptyBag
    /\ hbBudget = MaxWorkerDeliveries + 1
    /\ hbStarts = 0
    /\ hbCall = None
    /\ WORKERS = <<>>
    /\ now = 0
    /\ statusReport = None
    /\ RegistryIdle
    /\ DeclarationsIdle
    /\ prComments = <<>>
    /\ githubAccessToken = None

NextRegistry ==
    \/ heartbeat_take
    \/ heartbeat_lock
    \/ heartbeat_update
    \/ heartbeat_unlock
    \/ heartbeat_ack
    \/ status_begin
    \/ status_lock
    \/ status_line
    \/ status_unlock
    \/ tick

\* The block that holds the guard has no await in it: the thread that took
\* the mutex runs on to the end of the block.
SpecRegistry ==
    /\ InitRegistry
    /\ [][NextRegistry]_vars
    /\ WF_vars(heartbeat_update)
    /\ WF_vars(heartbeat_unlock)
    /\ WF_vars(status_line)
    /\ WF_vars(status_unlock)

----------------------------------------------------------------------------
(* Properties of the webhook consumer                                      *)

\* The retry counter as a number, unset counting as 0.
Counter(rt) == IF rt = None THEN 0 ELSE rt[1]

Handled == whCall # None /\ whCall[1].called

\* The body does not begin with the mention token.
BodyLacksMention(body) ==
    \/ body.lead_ws
    \/ body.words = <<>>
    \/ body.words[1][1] \notin {"@aosc-buildit-bot", "@aosc-buildit-bot2"}

StillUnacked(data) == \E d \in BagToSet(whUnacked) : d.data = data

\* C1: a retryable failure returned while the counter is 4 acknowledges the
\* delivery and resets the counter to unset, so the handler is never entered
\* with a counter above 4; a retryable failure returned while the counter is
\* 0..3 (unset counting as 0) raises the counter by exactly one and leaves
\* the delivery unacknowledged.
C1_RetryLimit ==
    /\ Counter(retry) <= 4
    /\ (Handled /\ whCall[1].result.kind = "Retry") =>
           LET n == Counter(whCall[1].retry_in)
           IN  /\ n <= 4
               /\ whCall[1].result.r = n + 1
               /\ n = 4 => /\ whCall[1].acked
                           /\ retry = None
               /\ n \in 0..3 => /\ ~whCall[1].acked
                                 /\ retry = Some(n + 1)
                                 /\ StillUnacked(whCall[1].data)

C1_Witness ==
    /\ Handled
    /\ whCall[1].retry_in = Some(4)
    /\ whCall[1].result = Retry(5)
    /\ whCall[1].acked
    /\ retry = None

\* C2: the counter handed to handle_webhook_comment for an event equals the
\* number of earlier retryable failures of that same event; a fresh event
\* is handled with an unset counter.
C2_CounterPerEvent ==
    Handled => Counter(whCall[1].retry_in) = whCall[1].fails_before

\* The consumer has run without interruption since it was first started.
KeepsRunning == whPc = "consuming" /\ whRestarts = 0

\* C3: while the consumer keeps running, a delivery it has taken and not
\* acknowledged is eventually acknowledged.
C3_EveryDeliveryAcked ==
    (whUnacked # EmptyBag) ~> (whUnacked = EmptyBag \/ ~KeepsRunning)

\* C4: an event whose body does not begin with the mention token publishes
\* no Job, does not invoke the dispatcher, and its delivery is acknowledged
\* in the same iteration with the retry counter left as it was.
C4_NoMentionNoDispatch ==
    (Handled /\ BodyLacksMention(whCall[1].data[1].body)) =>
        /\ pubLog = <<>>
        /\ ~whCall[1].invoked
        /\ whCall[1].acked
        /\ ~StillUnacked(whCall[1].data)
        /\ retry = whCall[1].retry_in

C4_Witness ==
    /\ Handled
    /\ whCall[1].data[1].body.lead_ws
    /\ whCall[1].retry_in = Some(2)
    /\ whCall[1].result = DoNotRetry
    /\ whCall[1].acked
    /\ retry = Some(2)

\* C5: an event whose author is not a member of the organization publishes
\* no Job, whatever its command and whatever the other steps answer; the
\* dispatcher is invoked only when the membership check returned true.
C5_NonMemberNoDispatch ==
    Handled =>
        /\ whCall[1].data[1].login \notin OrgPublicMembers =>
               /\ pubLog = <<>>
               /\ ~whCall[1].invoked
        /\ (whCall[1].invoked \/ pubLog # <<>>) => whCall[1].member = "true"

C5_Witness ==
    /\ Handled
    /\ whCall[1].data[1].login = "mallory"
    /\ IsBuildEvent(whCall[1].data)
    /\ whCall[1].member = "false"
    /\ whCall[1].result = DoNotRetry
    /\ whCall[1].acked
    /\ pubLog = <<>>

\* C6: across all attempts of one event each (event, architecture) Job is
\* published at most once: reprocessing an event does not publish a Job for
\* an architecture this event already had a Job published for.
C6_NoRedispatch ==
    Handled =>
        {pubLog[i].job.arch : i \in 1..Len(pubLog)}
            \cap whCall[1].dispatched_before = {}

\* C11: no Job with an empty package list is ever published: every Job in
\* a job queue carries at least one package.
C11_NoEmptyPackageList ==
    \A n \in DOMAIN queues :
        \A k \in 1..Len(queues[n]) : queues[n][k].packages # <<>>

----------------------------------------------------------------------------
(* Properties of the dispatcher (chat path)                                *)

SupportedArchs == Range(ALL_ARCH)

\* The architectures a request asks for, "mainline" standing for all of them.
RequestedArchSet(archs) ==
    IF "mainline" \in Range(archs)
    THEN (Range(archs) \ {"mainline"}) \cup SupportedArchs
    ELSE Range(archs)

StrictlySorted(v) ==
    \A i, j \in 1..Len(v) : i < j => StrRank(v[i]) < StrRank(v[j])

BuildHasNormalized == bReq # None /\ bPc \notin {"answer", "build"}

\* C7: when the requested architecture list contains "mainline", the list
\* build() hands to build_inner is the supported set united with the other
\* listed architectures, sorted, free of duplicates and without "mainline".
C7_MainlineExpansion ==
    (BuildHasNormalized /\ Contains(bReq[1].archs, "mainline"))
        => /\ Range(bArchs) =
                  SupportedArchs \cup (Range(bReq[1].archs) \ {"mainline"})
           /\ StrictlySorted(bArchs)
           /\ ~Contains(bArchs, "mainline")

C7_Witness ==
    /\ bPc = "done"
    /\ bReq # None
    /\ bReq[1].archs = <<"foo", "mainline", "arm64">>
    /\ bArchs = <<"amd64", "arm64", "foo", "loongarch64", "loongson3",
                  "mips64r6el", "ppc64el", "riscv64">>

\* C8: a successful dispatch has published exactly one Job per distinct
\* requested architecture, in sorted architecture order, each with the full
\* requested package list, each to the queue job-<arch>; the Jobs depend
\* only on the set of requested architectures.
C8_OneJobPerArch ==
    (bReq # None /\ bResult = "ok") =>
        LET want == RequestedArchSet(bReq[1].archs)
        IN  /\ Len(pubLog) = Cardinality(want)
            /\ {pubLog[i].job.arch : i \in 1..Len(pubLog)} = want
            /\ \A i, j \in 1..Len(pubLog) :
                   i < j => StrRank(pubLog[i].job.arch) < StrRank(pubLog[j].job.arch)
            /\ \A i \in 1..Len(pubLog) :
                   /\ pubLog[i].queue = QueueName(pubLog[i].job.arch)
                   /\ pubLog[i].job.packages = bReq[1].packages
                   /\ pubLog[i].job.git_ref = bReq[1].git_ref
                   /\ pubLog[i].job.github_pr = bReq[1].github_pr
            /\ DOMAIN queues = {QueueName(a) : a \in want}
            /\ \A a \in want :
                   /\ Len(queues[QueueName(a)]) = 1
                   /\ queues[QueueName(a)][1].arch = a
                   /\ queues[QueueName(a)][1].packages = bReq[1].packages

C8_Witness ==
    /\ bPc = "done"
    /\ bResult = "ok"
    /\ bReq # None
    /\ bReq[1].archs = <<"arm64", "amd64", "arm64">>
    /\ bReq[1].packages = <<"bash">>
    /\ Len(pubLog) = 2
    /\ pubLog[1].job.arch = "amd64"
    /\ pubLog[2].job.arch = "arm64"

C10_SupportedArchOnly ==
    /\ \A n \in DOMAIN queues :
           \A k \in 1..Len(queues[n]) : queues[n][k].arch \in SupportedArchs
    /\ \A n \in declared : n[1] = "job-" => n[2] \in SupportedArchs


----------------------------------------------------------------------------
(* Properties of the completion consumer                                   *)

Reports == {chat[i] : i \in {j \in 1..Len(chat) : chat[j].kind = "job_completed"}}

\* C12: a result is classified as successful exactly when
\* successful_packages and job.packages are equal as sets, whatever the
\* order of the packages; every other result is classified as a failure.
C12_SuccessIffSetEqual ==
    \A m \in Reports :
        m.success <=> Range(m.successful) = Range(m.packages)


\* The comments of the bot on pull request pr, as indices.
BotComments(comments, pr) ==
    {k \in 1..Len(comments) :
        comments[k].pr = pr /\ comments[k].login = BotLogin}

\* The last iteration wrote to the pull request.
AnnotationDone ==
    /\ jcCall # None
    /\ jcCall[1].annot \in {"update_ok", "create_ok"}

\* C13: annotation is append-or-create. When a comment of the bot exists on
\* the pull request, processing a result creates no comment and changes
\* one comment of the bot, to its previous body followed by the report;
\* when none exists, exactly one comment, holding the report, is created.
C13_AppendOrCreate ==
    AnnotationDone =>
        LET before == jcCall[1].before
            result == jcCall[1].data[1]
            bots   == BotComments(before, result.job.github_pr[1])
        IN  IF bots # {}
            THEN /\ Len(prComments) = Len(before)
                 /\ \E k \in bots :
                       /\ prComments[k].body =
                              Some(before[k].body[1] \o <<Report(result)>>)
                       /\ \A j \in 1..Len(before) :
                              j # k => prComments[j] = before[j]
            ELSE /\ Len(prComments) = Len(before) + 1
                 /\ SubSeq(prComments, 1, Len(before)) = before
                 /\ prComments[Len(prComments)] =
                        [pr    |-> result.job.github_pr[1],
                         login |-> BotLogin,
                         body  |-> Some(<<Report(result)>>)]


\* C14: when the pull request carries several comments of the bot, the
\* comment the report is appended to is the most recent of them.
C14_MostRecentBotComment ==
    (jcCall # None /\ jcCall[1].annot = "update_ok") =>
        LET before == jcCall[1].before
            bots   == BotComments(before, jcCall[1].data[1].job.github_pr[1])
            latest == CHOOSE k \in bots : \A j \in bots : j <= k
        IN  Cardinality(bots) >= 2 =>
                /\ prComments[latest].body # before[latest].body
                /\ \A j \in bots \ {latest} : prComments[j] = before[j]


\* The delivery of the last iteration, as the broker holds it.
LastDelivery(flag) == [data |-> jcCall[1].data, redelivered |-> flag]

\* C15: the acknowledgement is the last action for a delivery. A decoded
\* result is acknowledged only after the chat message was sent and, when
\* the annotation applies, the pull request was written to; when a step
\* fails the delivery is not acknowledged and the broker holds it for
\* redelivery, as it holds every delivery that was not acknowledged.
C15_AckLast ==
    (jcCall # None /\ jcCall[1].decoded) =>
        LET c == jcCall[1]
            applies == Annotates(c.data[1], githubAccessToken)
        IN  /\ c.ack # "not_reached" =>
                  /\ c.sent
                  /\ Len(chat) = c.sent_before + 1
                  /\ applies => c.annot \in {"update_ok", "create_ok"}
                  /\ applies => prComments # c.before
            /\ (~c.sent \/ c.annot \in {"list_err", "crab_err", "update_err",
                                        "create_err"}) =>
                  /\ c.ack = "not_reached"
                  /\ c.returned
                  /\ LastDelivery(TRUE) \in BagToSet(jcReady)
            /\ Held(c.data, jcUnacked, jcReady) =
                  c.held_before + (IF c.acked THEN 0 ELSE 1)

\* A result whose first pass wrote its report but was not acknowledged is
\* delivered again, and its report is sent and appended a second time.
C15_Witness ==
    /\ jcCall # None
    /\ jcCall[1].redelivered
    /\ jcCall[1].acked
    /\ jcCall[1].annot = "update_ok"
    /\ jcBudget = MaxResults - 2
    /\ prComments = <<[pr    |-> ResultPr,
                       login |-> BotLogin,
                       body  |-> Some(<<Report(jcCall[1].data[1]),
                                        Report(jcCall[1].data[1])>>)]>>
    /\ chat = <<Report(jcCall[1].data[1]), Report(jcCall[1].data[1])>>

\* C16: a delivery whose payload does not decode is skipped: no chat
\* message is sent, the pull requests are not touched, delivery.ack is
\* called (the delivery is acknowledged unless that call itself fails), and
\* the loop goes on to the next delivery.
C16_UndecodableSkipped ==
    (jcCall # None /\ ~jcCall[1].decoded) =>
        LET c == jcCall[1]
        IN  /\ c.data = None
            /\ ~c.sent
            /\ Len(chat) = c.sent_before
            /\ prComments = c.before
            /\ c.ack \in {"ok", "err"}
            /\ Held(c.data, jcUnacked, jcReady) =
                  c.held_before + (IF c.ack = "ok" THEN 0 ELSE 1)
            /\ ~c.returned

\* Two deliveries taken, neither of them twice: the first did not decode
\* and was acknowledged, the second was processed and acknowledged.
C16_Witness ==
    /\ jcCall # None
    /\ jcCall[1].decoded
    /\ jcCall[1].acked
    /\ ~jcCall[1].redelivered
    /\ jcBudget = MaxResults - 2
    /\ jcPc = "consuming"
    /\ Len(chat) = 1
    /\ jcUnacked = EmptyBag
    /\ jcReady = EmptyBag


----------------------------------------------------------------------------
(* Properties of the supervisors                                           *)

----------------------------------------------------------------------------
(* Properties of the registry and of status                                *)

\* pub const HEARTBEAT_TIMEOUT: i64 = 600; // 10 minutes
HEARTBEAT_TIMEOUT == 600

\* C18: the registry is insert-or-update keyed by WorkerIdentifier. A
\* well-formed heartbeat leaves the registry with the entries it had and
\* one for the heartbeat's identifier, whose last_heartbeat is the time of
\* receipt; the other entries keep their times. A payload that does not
\* decode leaves the registry as it was.
C18_InsertOrUpdate ==
    hbCall # None =>
        LET c == hbCall[1]
        IN  IF c.decoded
            THEN LET id == c.data[1].identifier
                 IN  /\ DOMAIN WORKERS = DOMAIN c.before \cup {id}
                     /\ WORKERS[id] = c.at
                     /\ \A other \in DOMAIN c.before \ {id} :
                            WORKERS[other] = c.before[other]
            ELSE WORKERS = c.before

\* Heartbeats of A at 0, of B at 350 and of A again at 700: two entries,
\* A's time being that of the second arrival.
C18_Witness ==
    /\ hbBudget = MaxHeartbeats - 3
    /\ hbCall # None
    /\ hbCall[1].decoded
    /\ hbCall[1].data[1].identifier = WorkerA
    /\ hbCall[1].at = 2 * TickSeconds
    /\ hbCall[1].before = (WorkerA :> 0) @@ (WorkerB :> TickSeconds)
    /\ WORKERS = (WorkerA :> 2 * TickSeconds) @@ (WorkerB :> TickSeconds)

\* C19: no step removes an entry of the registry or lowers an entry's
\* last_heartbeat; the restarts of the heartbeat consumer leave the
\* registry as it is.
C19_RegistryOnlyGrows ==
    [][\A id \in DOMAIN WORKERS :
           /\ id \in DOMAIN WORKERS'
           /\ WORKERS'[id] >= WORKERS[id]]_vars

\* The inner function has ended and is being started again while the
\* registry holds the entries of both workers.
C19_Witness ==
    /\ hbPc = "starting"
    /\ hbStarts = MaxStartsCounted
    /\ hbCall # None
    /\ DOMAIN WORKERS = {WorkerA, WorkerB}

\* C20: the status report applies the threshold at read time: an entry is
\* reported as online only if its last_heartbeat is at most
\* HEARTBEAT_TIMEOUT seconds before the time of the report.
C20_OnlineWithinThreshold ==
    statusReport # None =>
        \A i \in 1..Len(statusReport[1]) :
            statusReport[1][i].state = "Online" =>
                statusReport[1][i].as_of <= HEARTBEAT_TIMEOUT


----------------------------------------------------------------------------
(* The queue declarations of the server, as the broker sees them           *)

\* AMQPValue::LongInt(24 * 3600 * 1000): x-consumer-timeout in milliseconds
ConsumerTimeout == 24 * 3600 * 1000

\* The parameters of a queue_declare call: QueueDeclareOptions.durable and
\* the x-consumer-timeout argument of the FieldTable, if any.
DeclareParams(durable, timeout) == [durable |-> durable, timeout |-> timeout]

\* The arguments ensure_job_queue passes.
EnsureParams == DeclareParams(TRUE, Some(ConsumerTimeout))

\* durable: true with FieldTable::default()
DurableDefaultParams == DeclareParams(TRUE, None)

\* The architectures status() lists.
StatusArchs ==
    <<"amd64", "arm64", "loongarch64", "loongson3", "mips64r6el", "ppc64el",
      "riscv64">>

\* The broker's answer to queue.declare: a queue that exists is left as it
\* is, and the call fails when its parameters differ from the queue's.
queue_declare(name, params) ==
    /\ qArgs' = IF name \in DOMAIN qArgs THEN qArgs ELSE (name :> params) @@ qArgs
    /\ qLast' = Some([name |-> name, params |-> params,
                      result |-> IF name \in DOMAIN qArgs /\ qArgs[name] # params
                                 THEN "precondition_failed" ELSE "ok"])

qOthers == <<brokerVars, chatVars, whVars, jcVars, hbVars, regVars>>

\* build_inner: ensure_job_queue(&queue_name, &channel) for one architecture
build_inner_declare ==
    /\ \E i \in 1..Len(ALL_ARCH) :
          queue_declare(QueueName(ALL_ARCH[i]), EnsureParams)
    /\ UNCHANGED qOthers

\* status: ensure_job_queue(&queue_name, &channel) for one architecture
status_declare ==
    /\ \E i \in 1..Len(StatusArchs) :
          queue_declare(QueueName(StatusArchs[i]), EnsureParams)
    /\ UNCHANGED qOthers

\* heartbeat_worker_inner: ensure_job_queue("worker-heartbeat")
heartbeat_declare ==
    /\ queue_declare(<<"worker-heartbeat">>, EnsureParams)
    /\ UNCHANGED qOthers

\* job_completion_worker_inner: queue_declare("job-completion", ...)
completion_declare ==
    /\ queue_declare(<<"job-completion">>, DurableDefaultParams)
    /\ UNCHANGED qOthers

\* get_webhooks_message: queue_declare("github-webhooks", ...)
webhooks_declare ==
    /\ queue_declare(<<"github-webhooks">>, DurableDefaultParams)
    /\ UNCHANGED qOthers

\* A broker on which no queue exists yet.
InitQueues ==
    /\ BrokerInit
    /\ ChatOff
    /\ WebhookOff
    /\ CompletionOff
    /\ hbPc = "off"
    /\ hbReady = EmptyBag
    /\ hbUnacked = EmptyBag
    /\ hbBudget = 0
    /\ hbStarts = 0
    /\ hbCall = None
    /\ WORKERS = <<>>
    /\ now = 0
    /\ statusReport = None
    /\ RegistryIdle
    /\ DeclarationsIdle
    /\ prComments = <<>>
    /\ githubAccessToken = None

NextQueues ==
    \/ build_inner_declare
    \/ status_declare
    \/ heartbeat_declare
    \/ completion_declare
    \/ webhooks_declare

SpecQueues == InitQueues /\ [][NextQueues]_vars

----------------------------------------------------------------------------
(* The server with its three consumers and status at work                  *)

\* The server some time after its start: the three consumers have connected
\* and await deliveries, and the registry holds the entry of worker b, whose
\* heartbeat arrived at 0. Either the webhook consumer or the completion
\* consumer has deliveries left of its bound.
InitServer ==
    /\ BrokerInit
    /\ ChatOff
    /\ whPc = "consuming"
    /\ retry = None
    /\ whReady = EmptyBag
    /\ whUnacked = EmptyBag
    /\ whBuilds = 0
    /\ whRestarts = 0
    /\ whCall = None
    /\ prComments = <<>>
    /\ githubAccessToken = None
    /\ jcPc = "consuming"
    /\ jcReady = EmptyBag
    /\ jcUnacked = EmptyBag
    /\ \/ /\ whNext = MaxDeliveries - 1
          /\ jcBudget = 0
       \/ /\ whNext = MaxDeliveries
          /\ jcBudget = MaxWorkerDeliveries
    /\ jcStarts = 0
    /\ jcCall = None
    /\ hbPc = "consuming"
    /\ hbReady = EmptyBag
    /\ hbUnacked = EmptyBag
    /\ hbBudget = MaxWorkerDeliveries
    /\ hbStarts = 0
    /\ hbCall = Some([data |-> Some([identifier |-> WorkerB]),
                       decoded |-> TRUE, ack |-> "ok", at |-> 0,
                       before |-> <<>>, beside_backoff |-> FALSE])
    /\ WORKERS = (WorkerB :> 0)
    /\ now = (MaxTicks - 1) * TickSeconds
    /\ statusReport = None
    /\ RegistryIdle
    /\ DeclarationsIdle

NextServer ==
    \/ hb_delivery
    \/ tick
    \/ status
    \/ jc_delivery
    \/ webhook_delivery

SpecServer == InitServer /\ [][NextServer]_vars

----------------------------------------------------------------------------
(* Properties of the workers side by side                                  *)

\* C21: the two consumers make progress independently. Whatever the
\* completion worker is doing (consuming, returned with an error, sleeping
\* in its backoff), the heartbeat consumer that awaits a delivery can take
\* it, and the other way round; a step of one worker changes nothing of
\* the other.
C21_IndependentProgress ==
    /\ []((hbPc = "consuming" /\ hbBudget > 0 /\ hbReady = EmptyBag)
              => ENABLED hb_delivery)
    /\ []((hbPc = "consuming" /\ hbBudget > 0 /\ hbReady # EmptyBag)
              => ENABLED hb_redelivery)
    /\ []((jcPc = "consuming" /\ jcBudget > 0 /\ jcReady = EmptyBag)
              => ENABLED jc_delivery)
    /\ []((jcPc = "consuming" /\ jcBudget > 0 /\ jcReady # EmptyBag)
              => ENABLED jc_redelivery)
    /\ [][/\ hbVars' # hbVars =>
               /\ jcVars' = jcVars
               /\ chat' = chat
               /\ prComments' = prComments
          /\ jcVars' # jcVars => hbVars' = hbVars]_vars

\* A heartbeat was processed and acknowledged, and the registry updated,
\* while the completion worker was in its backoff after a failed pass.
C21_Witness ==
    /\ hbCall # None
    /\ hbCall[1].beside_backoff
    /\ hbCall[1].decoded
    /\ hbCall[1].ack = "ok"
    /\ hbCall[1].data[1].identifier \in DOMAIN WORKERS
    /\ jcCall # None
    /\ jcCall[1].returned
    /\ jcPc = "backoff"


\* The task that holds the mutex is inside its block.
LockDiscipline ==
    /\ lock = "heartbeat" <=>
           (hbCur # None /\ hbCur[1].pos \in {"update", "unlock"})
    /\ lock = "status" <=> (stRun # None /\ stRun[1].pos = "iterate")

\* What a status call has read is what the registry held when the call
\* took the mutex, and the registry stays so while the call reads.
ConsistentSnapshot ==
    (stRun # None /\ stRun[1].pos \in {"iterate", "done"}) =>
        LET r == stRun[1]
        IN  /\ \A id \in DOMAIN r.read :
                  id \in DOMAIN r.snap /\ r.read[id] = r.snap[id]
            /\ r.pos = "iterate" => WORKERS = r.snap
            /\ r.pos = "done" =>
                  /\ DOMAIN r.read = DOMAIN r.snap
                  /\ Len(r.lines) = Cardinality(DOMAIN r.snap)

\* C22: the registry is read and written under its mutex only. A status
\* call reads one state of the registry, that of the moment it took the
\* mutex; the mutex is held only inside the two blocks, which contain no
\* await; and a task that holds it lets it go, so that neither the reader
\* nor the writer waits for ever.
C22_RegistryUnderMutex ==
    /\ []LockDiscipline
    /\ []ConsistentSnapshot
    /\ (lock # "free") ~> (lock = "free")

\* A status call has read the entry of worker a and holds the mutex while
\* the heartbeat loop, a later heartbeat of worker a in hand, waits for it.
C22_Witness ==
    /\ stRun # None
    /\ stRun[1].pos = "iterate"
    /\ stRun[1].idx = 2
    /\ WorkerA \in DOMAIN stRun[1].read
    /\ hbCur # None
    /\ hbCur[1].pos = "lock"
    /\ hbCur[1].d.data[1].identifier = WorkerA
    /\ now > WORKERS[WorkerA]


----------------------------------------------------------------------------
(* Properties of the webhook pipeline's stages                             *)

\* The event of the last iteration was addressed to the bot.
AddressedToBot ==
    /\ whCall # None
    /\ whCall[1].called
    /\ ~whCall[1].data[1].body.lead_ws
    /\ whCall[1].data[1].body.words # <<>>
    /\ whCall[1].data[1].body.words[1] = MentionWord

\* The command of the last event: the words after the mention.
CommandWords == Tail(whCall[1].data[1].body.words)

\* C23: an event addressed to the bot whose command is not `build`, the
\* body that is the mention alone included, yields DoNotRetry: the delivery
\* is acknowledged, no Job is published and the consumer keeps running.
C23_OtherCommandDoNotRetry ==
    (AddressedToBot /\ (CommandWords = <<>> \/ CommandWords[1] # <<"build">>)) =>
        /\ whCall[1].result = DoNotRetry
        /\ whCall[1].acked
        /\ ~whCall[1].invoked
        /\ pubLog = <<>>
        /\ whPc = "consuming"

\* The part of C23 that the code keeps: a command word other than `build`.
OtherWordDoNotRetry ==
    (AddressedToBot /\ CommandWords # <<>> /\ CommandWords[1] # <<"build">>) =>
        /\ whCall[1].result = DoNotRetry
        /\ whCall[1].acked
        /\ ~whCall[1].invoked
        /\ pubLog = <<>>
        /\ whPc = "consuming"

\* C24: a delivery whose payload does not decode as a comment event is
\* acknowledged, publishes no Job and leaves the retry counter as it was.
C24_UndecodableAcked ==
    (whCall # None /\ whCall[1].data = None) =>
        /\ whCall[1].acked
        /\ pubLog = <<>>
        /\ whCall[1].retry_out = whCall[1].retry_in

\* C25: the pull request is looked up only after the author's membership
\* has been confirmed: an event of a non-member never ends with a retryable
\* result before the membership check was made.
C25_AuthorizeBeforeResolve ==
    (/\ AddressedToBot
     /\ whCall[1].data[1].login \notin OrgPublicMembers
     /\ whCall[1].result.kind = "Retry")
        => whCall[1].member # "not_called"


\* The retryable result that carries the counter rt raised by one.
Incremented(rt) == Retry(IF rt = None THEN 1 ELSE rt[1] + 1)

\* The last event carried a build command and its issue URL a number.
BuildCommand ==
    /\ AddressedToBot
    /\ CommandWords # <<>>
    /\ CommandWords[1] = <<"build">>
    /\ PrNumber(whCall[1].data[1].issue_url) # None

\* The pull-request fetch of the last call failed.
FetchFailed ==
    /\ BuildCommand
    /\ whCall[1].member = "not_called"

\* C26: the 404 answer of the membership check yields DoNotRetry; a
\* membership check that ends in any other error, a failed pull-request
\* fetch, a failed dispatch and a failed post of the summary comment each
\* yield Retry with the counter raised by one; the failures before the
\* dispatch publish no Job.
C26_FailureClassification ==
    whCall # None /\ whCall[1].called =>
        LET c == whCall[1]
        IN  /\ c.member = "false" => (c.result = DoNotRetry /\ pubLog = <<>>)
            /\ c.member = "err" =>
                  (c.result = Incremented(c.retry_in) /\ pubLog = <<>>)
            /\ FetchFailed =>
                  (c.result = Incremented(c.retry_in) /\ pubLog = <<>>)
            /\ (c.invoked /\ ~c.send_ok) => c.result = Incremented(c.retry_in)
            /\ c.post = "post_err" => c.result = Incremented(c.retry_in)
            /\ (c.member \in {"false", "err"} \/ FetchFailed) => ~c.invoked

\* The dispatch succeeded and the post of the summary comment failed, on a
\* call that was entered with the counter at 1.
C26_Witness ==
    /\ whCall # None
    /\ whCall[1].called
    /\ whCall[1].member = "true"
    /\ whCall[1].send_ok
    /\ whCall[1].post = "post_err"
    /\ whCall[1].retry_in = Some(1)
    /\ whCall[1].result = Retry(2)
    /\ pubLog # <<>>

\* C27: at the start of every iteration the counter is unset or one of
\* 1..4: 5 is never stored and never handed to the handler.
C27_CounterRange ==
    /\ retry = None \/ retry[1] \in 1..4
    /\ whCall # None =>
          (whCall[1].retry_in = None \/ whCall[1].retry_in[1] \in 1..4)

\* The counter stands at 4 and was handed at 4 to the handler for an event
\* that ended without a retryable failure.
C27_Witness ==
    /\ retry = Some(4)
    /\ whCall # None
    /\ whCall[1].called
    /\ whCall[1].retry_in = Some(4)
    /\ whCall[1].result.kind \in {"Ok", "DoNotRetry"}


\* C29: the successful packages of every JobResult the completion worker
\* processes are packages of its Job; a result of which this is not true is
\* neither classified as successful nor reported.
C29_SuccessfulSubset ==
    /\ \A m \in Reports : Range(m.successful) \subseteq Range(m.packages)
    /\ (jcCall # None /\ jcCall[1].decoded) =>
          Range(jcCall[1].data[1].successful_packages)
              \subseteq Range(jcCall[1].data[1].job.packages)

\* The part of C29 that the code keeps: a result naming a successful
\* package that its Job does not list is never classified as successful.
ForeignPackageNeverSuccess ==
    \A m \in Reports :
        ~(Range(m.successful) \subseteq Range(m.packages)) => ~m.success

\* C30: delivery.ack is called once for every delivery the heartbeat loop
\* takes, whether or not the payload decodes; a payload that does not
\* decode leaves the registry as it was and the consumer consuming.
C30_HeartbeatAlwaysAcked ==
    /\ [](hbCall # None =>
            /\ hbCall[1].ack \in {"ok", "err"}
            /\ ~hbCall[1].decoded => WORKERS = hbCall[1].before)
    /\ [][(hbBudget' < hbBudget /\ ~hbCall'[1].decoded) =>
              hbPc' = "consuming"]_vars

\* The part of C30 that the code keeps: a heartbeat that decodes has its
\* ack called once, and one that does not decode changes nothing in the
\* registry and leaves the consumer consuming.
DecodedHeartbeatAcked ==
    /\ [](hbCall # None =>
            /\ hbCall[1].decoded => hbCall[1].ack \in {"ok", "err"}
            /\ ~hbCall[1].decoded => WORKERS = hbCall[1].before)
    /\ [][(hbBudget' < hbBudget /\ ~hbCall'[1].decoded) =>
              hbPc' = "consuming"]_vars

----------------------------------------------------------------------------
(* Properties of the queue declarations                                    *)

\* C28: every queue the server has declared is durable and carries the
\* 24-hour acknowledgement timeout, and no declaration fails because its
\* parameters differ from those the queue was declared with.
C28_DurableWithTimeout ==
    /\ \A n \in DOMAIN qArgs :
          /\ qArgs[n].durable
          /\ qArgs[n].timeout = Some(ConsumerTimeout)
    /\ qLast # None => qLast[1].result = "ok"

\* The part of C28 that the code keeps: durable, the same parameters at
\* every declaration of a name, and no declaration that fails.
DeclarationsAgree ==
    /\ \A n \in DOMAIN qArgs : qArgs[n].durable
    /\ qLast # None =>
          /\ qLast[1].result = "ok"
          /\ qArgs[qLast[1].name] = qLast[1].params


----------------------------------------------------------------------------
(* The frame of the registry                                               *)

\* The step is an iteration of the heartbeat loop for a heartbeat of x.
HeartbeatOf(x) ==
    /\ hbBudget' < hbBudget
    /\ hbCall' # None
    /\ hbCall'[1].decoded
    /\ hbCall'[1].data[1].identifier = x

\* The step produces a status report, processes a job completion or
\* processes a webhook event.
OtherProcessing ==
    \/ statusReport' # statusReport
    \/ jcBudget' < jcBudget
    \/ whNext' > whNext

\* C31: a step that changes the registry is the processing of a heartbeat,
\* and it changes the entry of the heartbeat's identifier only: every other
\* identifier has the entry it had, or none as before. Producing the status
\* report, processing a job completion and processing a webhook event leave
\* the registry as it is.
C31_RegistryFrame ==
    [][/\ \A x \in Range(WorkerIdentifiers) :
             HeartbeatOf(x) =>
                 \A id \in (DOMAIN WORKERS \cup DOMAIN WORKERS') \ {x} :
                     /\ id \in DOMAIN WORKERS
                     /\ id \in DOMAIN WORKERS'
                     /\ WORKERS'[id] = WORKERS[id]
       /\ WORKERS' # WORKERS => \E x \in Range(WorkerIdentifiers) : HeartbeatOf(x)
       /\ OtherProcessing => WORKERS' = WORKERS]_vars

\* A heartbeat of worker a was processed while the registry held the entry
\* of worker b from 0, which is still there; a status report with both
\* lines was produced and a webhook event was dispatched as well.
C31_Witness ==
    /\ hbCall # None
    /\ hbCall[1].decoded
    /\ hbCall[1].data[1].identifier = WorkerA
    /\ hbCall[1].before = (WorkerB :> 0)
    /\ WORKERS = (WorkerA :> hbCall[1].at) @@ (WorkerB :> 0)
    /\ hbCall[1].at > 0
    /\ statusReport # None
    /\ Len(statusReport[1]) = 2
    /\ whCall # None
    /\ whCall[1].invoked

====
